---- MODULE Spec2Model ----
(***************************************************************************)
(* A model of pygenie's RunningJob (pygenie/jobs/running.py): the lazy,    *)
(* cached, polling handle on a remote Genie job.                           *)
(*                                                                         *)
(* Python values.  A str is the sequence of its characters, so that        *)
(* str.upper and str.split are computed and not assumed.  None is a        *)
(* sequence no str can equal (its one element is not a character).  A      *)
(* dict is the set of its items, <<key, value>>, one per key.              *)
(*                                                                         *)
(* The Adapter is the environment: every call it receives is answered by   *)
(* any value of the bounded answer sets below, or by a failure (the call   *)
(* raises).  One operation of the handle is one action; the answers of the *)
(* Adapter calls the operation may issue are the action's inputs.  wait,   *)
(* whose loop need not end, is one action per evaluation of its loop       *)
(* condition.                                                              *)
(***************************************************************************)
EXTENDS Integers, Sequences, FiniteSets, TLC

VARIABLES
    world,              \* what the remote side can answer in this run (fixed)
    _job_id,            \* self._job_id
    _info,              \* self._info: the cache
    _status,            \* self._status: the dedicated status field
    _cached_genie_log,  \* self._cached_genie_log
    _cached_stderr,     \* self._cached_stderr
    _sys_stream,        \* self._sys_stream: None or the name of the stream
    pc,                 \* "idle", or "wait" while wait() is polling
    i,                  \* wait's local i
    statuses,           \* wait's local statuses (the stop set)
    suppress_stream,    \* wait's argument suppress_stream
    stream,             \* what wait wrote to the stream, if op is wait
    op,                 \* the operation called last
    calls,              \* the Adapter calls that operation issued, in order
    resp,               \* the Adapter's answer to the last of them
    ret,                \* what the operation returned or raised
    failed,             \* history: which of calls was the first to fail (0: none)
    at_call,            \* history: the handle's fields when the failing call
                        \* was issued (the fields as they are, if none failed)
    obtained,           \* history: the first status outside {INIT, RUNNING}
                        \* that the status accessor got from the Adapter
    was_empty,          \* history: the cache was empty when op was called
    prior               \* history: the operation before op, when it was the
                        \* same operation

vars == <<world, _job_id, _info, _status, _cached_genie_log, _cached_stderr,
          _sys_stream, pc, i, statuses, suppress_stream, stream,
          op, calls, resp, ret, failed, at_call, obtained, was_empty, prior>>

---------------------------------------------------------------------------
(* Python values *)

None == <<"None">>

\* Python truthiness of None and of a str.
Truthy(v) == v # None /\ v # <<>>

LowerCase == <<"a","b","c","d","e","f","g","h","i","j","k","l","m",
               "n","o","p","q","r","s","t","u","v","w","x","y","z">>
UpperCase == <<"A","B","C","D","E","F","G","H","I","J","K","L","M",
               "N","O","P","Q","R","S","T","U","V","W","X","Y","Z">>

UpperOf == [c \in {LowerCase[n] : n \in DOMAIN LowerCase} |->
                UpperCase[CHOOSE n \in DOMAIN LowerCase : LowerCase[n] = c]]

UpperChar(c) == IF c \in DOMAIN UpperOf THEN UpperOf[c] ELSE c

\* str.upper()
Upper(s) == [n \in DOMAIN s |-> UpperChar(s[n])]

\* str.split(sep) for a one-character sep: the pieces between the separators.
RECURSIVE SplitFrom(_, _, _, _)
SplitFrom(s, sep, n, piece) ==
    IF n > Len(s) THEN <<piece>>
    ELSE IF s[n] = sep THEN <<piece>> \o SplitFrom(s, sep, n + 1, <<>>)
    ELSE SplitFrom(s, sep, n + 1, Append(piece, s[n]))

Split(s, sep) == SplitFrom(s, sep, 1, <<>>)

EmptyDict == {}

\* d.keys()
Keys(d) == {item[1] : item \in d}

\* d[k], for k in d
Item(d, k) == (CHOOSE item \in d : item[1] = k)[2]

\* d.get(k), the default None
DictGet(d, k) == IF k \in Keys(d) THEN Item(d, k) ELSE None

\* d[k] = v
DictSet(d, k, v) == {item \in d : item[1] # k} \cup {<<k, v>>}

\* A merge in which the local value wins.
DictKeepOld(d, m) == d \cup {item \in m : item[1] \notin Keys(d)}

\* d.update(m)
DictUpdate(d, m) == {item \in d : item[1] \notin Keys(m)} \cup m

Digits == <<"0","1","2","3","4","5","6","7","8","9">>

IsDigit(c) == \E n \in DOMAIN Digits : Digits[n] = c

\* int(c) of a digit
Digit(c) == (CHOOSE n \in DOMAIN Digits : Digits[n] = c) - 1

\* int(s[from..to]) of a run of digits
RECURSIVE Number(_, _, _)
Number(s, from, to) ==
    IF to < from THEN 0 ELSE 10 * Number(s, from, to - 1) + Digit(s[to])

\* re.search(r'\.\d\d\dZ', s)
HasMillis(s) ==
    \E n \in DOMAIN s :
        /\ n + 4 <= Len(s)
        /\ s[n] = "."
        /\ IsDigit(s[n + 1]) /\ IsDigit(s[n + 2]) /\ IsDigit(s[n + 3])
        /\ s[n + 4] = "Z"

\* utils.dttm_to_epoch(dttm, frmt) on a timestamp of January 1970,
\* YYYY-MM-DDTHH:MM:SSZ, or YYYY-MM-DDTHH:MM:SS.fffZ when frmt has the
\* fraction: the seconds since the epoch, held in thousandths.
dttm_to_epoch(dttm, with_fraction) ==
    LET day == Number(dttm, 9, 10)
        hour == Number(dttm, 12, 13)
        minute == Number(dttm, 15, 16)
        second == Number(dttm, 18, 19)
        whole == (((day - 1) * 24 + hour) * 60 + minute) * 60 + second
    IN  whole * 1000 + (IF with_fraction THEN Number(dttm, 21, 23) ELSE 0)

\* epoch * 1000 of seconds held in thousandths: a number of milliseconds
Times1000(epoch) == epoch

---------------------------------------------------------------------------
(* The module's constants *)

INIT == <<"I","N","I","T">>
RUNNING == <<"R","U","N","N","I","N","G">>
SUCCEEDED == <<"S","U","C","C","E","E","D","E","D">>
FAILED == <<"F","A","I","L","E","D">>

RUNNING_STATUSES ==
    {INIT, RUNNING, <<"i","n","i","t">>, <<"r","u","n","n","i","n","g">>}

INFO_SECTIONS ==
    {"applications", "cluster", "command", "execution", "job", "request"}

\* _update_info's info_section=None
NoSection == "None"

---------------------------------------------------------------------------
(* The bounded environment *)

\* The statuses the remote side and a pre-seeded mapping are drawn from: the
\* two running statuses, one of them also in lower and in mixed case, and two
\* terminal ones, one of them in lower case.
StatusStrings ==
    {INIT, RUNNING, <<"r","u","n","n","i","n","g">>,
     <<"R","u","n","n","i","n","g">>, SUCCEEDED, <<"f","a","i","l","e","d">>}

V1 == <<"v","1">>
V2 == <<"v","2">>

\* The values of a field other than status: null, or one of two values.
FieldValues == {None, V1, V2}

TextA == <<"a">>
TextAB == <<"a","\n","b">>

\* Log contents: empty, one line, two lines.
LogTexts == {<<>>, TextA, TextAB}

Response200 == <<"2","0","0">>
Response404 == <<"4","0","4">>

\* What kill_job answers.
KillResponses == {Response200, Response404}

JobId == <<"j","1">>

\* The timestamp a missing field converts from: 1970-01-01T00:00:00Z
EpochStart ==
    <<"1","9","7","0","-","0","1","-","0","1","T","0","0",":","0","0",":","0","0","Z">>

\* 1970-01-01T00:00:01Z
Stamp1 ==
    <<"1","9","7","0","-","0","1","-","0","1","T","0","0",":","0","0",":","0","1","Z">>

\* 1970-01-01T00:00:02.500Z
Stamp2 ==
    <<"1","9","7","0","-","0","1","-","0","1","T","0","0",":","0","0",":","0","2",
      ".","5","0","0","Z">>

\* The values of a timestamp field: null, or a timestamp with or without the
\* fraction.
Timestamps == {None, Stamp1, Stamp2}

TimeKeys == {"started", "finished", "updated"}

\* The passes of wait's loop a run follows: the loop has no limit of its own.
MaxPolls == 4

\* The decorated properties: get_from_info(info_key, info_section,
\* update_if_running) on the property `name`.
Accessor(name, info_key, info_section, update_if_running) ==
    [name |-> name, info_key |-> info_key, info_section |-> info_section,
     update_if_running |-> update_if_running]

Accessors ==
    {Accessor("cluster_name", "cluster_name", "cluster", FALSE),
     Accessor("command_args", "command_args", "job", FALSE),
     Accessor("description", "description", "job", FALSE),
     Accessor("file_dependencies", "file_dependencies", "request", FALSE),
     Accessor("job_id", "id", "job", FALSE),
     Accessor("job_name", "name", "job", FALSE),
     Accessor("job_link", "job_link", "job", FALSE),
     Accessor("json_link", "json_link", "job", FALSE),
     Accessor("kill_uri", "kill_uri", "job", FALSE),
     Accessor("output_uri", "output_uri", "job", FALSE),
     Accessor("request_data", "request_data", "request", FALSE),
     Accessor("status_msg", "status_msg", "job", TRUE),
     Accessor("tags", "tags", "job", FALSE),
     Accessor("username", "user", "job", FALSE)}

AccessorOf(name) == CHOOSE a \in Accessors : a.name = name

\* A world fixes one run's surroundings: the field names the remote side's
\* mappings carry, the statuses a pre-seeded mapping may hold, the log
\* contents the remote side serves, the configured progress stream, and
\* whether the caller waits.  The caller reads the decorated properties of
\* the world's field names, and the logs where the world serves any; status,
\* is_done, is_successful, update and kill are open in every world.
World(keys, seeds, logs, progress_stream, waits) ==
    [keys |-> keys, seeds |-> seeds, logs |-> logs,
     progress_stream |-> progress_stream, waits |-> waits]

SeedStatuses == StatusStrings \cup {<<>>}

\* The statuses seeded where the caller reads the times: a running one in
\* mixed case and a terminal one.
TimeSeeds == {<<"R","u","n","n","i","n","g">>, <<"f","a","i","l","e","d">>}

Worlds ==
    {World({a.info_key}, {}, {}, "stdout", FALSE) :
        a \in {x \in Accessors : x.name \notin {"status_msg", "kill_uri"}}}
    \cup {World({"started", "finished"}, {}, {}, "stdout", FALSE),
          World({"updated"}, TimeSeeds, {}, "stdout", FALSE),
          World({"status_msg"}, SeedStatuses, {}, "stdout", FALSE),
          World({"kill_uri"}, {}, {}, "stdout", TRUE),
          World({"status"}, SeedStatuses, {}, "stderr", TRUE),
          World({}, SeedStatuses, LogTexts, "none", TRUE)}

\* The remote side's id of the job is the handle's, or another, or null.
ValuesOf(k) ==
    IF k = "status" THEN StatusStrings
    ELSE IF k = "started" THEN {None, Stamp1}
    ELSE IF k = "finished" THEN {None, Stamp2}
    ELSE IF k = "updated" THEN Timestamps
    ELSE IF k = "id" THEN {None, JobId, V2}
    ELSE FieldValues

\* The mappings over the field names `keys`.
Mappings(keys) ==
    UNION {{{<<k, m[k]>> : k \in S} :
                m \in {f \in [S -> UNION {ValuesOf(k) : k \in S}] :
                          \A k \in S : f[k] \in ValuesOf(k)}} :
           S \in SUBSET keys}

\* An Adapter call's outcome: an answer (val: a str; map: the mapping that
\* get_info_for_rj answers), or the call raises.
Ok(v) == [ok |-> TRUE, val |-> v, map |-> EmptyDict]
OkMapping(m) == [ok |-> TRUE, val |-> None, map |-> m]
Failure == [ok |-> FALSE, val |-> None, map |-> EmptyDict]

\* The statuses the remote side reports: where the caller reads the start
\* and finish times, RUNNING and then SUCCEEDED.
RemoteStatuses ==
    IF "started" \in world.keys THEN {RUNNING, SUCCEEDED} ELSE StatusStrings

StatusOutcomes == {Ok(s) : s \in RemoteStatuses} \cup {Failure}
\* The outcome given to a step for an Adapter call its code cannot reach.
NotCalled == {Failure}
InfoOutcomes == {OkMapping(m) : m \in Mappings(world.keys)} \cup {Failure}
LogOutcomes == {Ok(t) : t \in world.logs} \cup {Failure}
KillOutcomes == {Ok(r) : r \in KillResponses} \cup {Failure}

\* The info argument of the constructor: nothing, or a mapping over the
\* world's field names and status, the status possibly empty.
Seeds ==
    {DictUpdate(m, s) :
        m \in Mappings(world.keys \ {"status"}),
        s \in {EmptyDict} \cup {{<<"status", v>>} : v \in world.seeds}}

---------------------------------------------------------------------------
(* Adapter calls *)

AdapterCall(fn) ==
    [fn |-> fn, job_id |-> None, section |-> "-", iterator |-> FALSE,
     kill_uri |-> None, log_path |-> None]

get_status(job_id) == [AdapterCall("get_status") EXCEPT !.job_id = job_id]

get_info_for_rj(job_id, info_section) ==
    [AdapterCall("get_info_for_rj") EXCEPT
        !.job_id = job_id, !.section = info_section]

get_genie_log(job_id, iterator) ==
    [AdapterCall("get_genie_log") EXCEPT !.job_id = job_id, !.iterator = iterator]

get_stderr(job_id, iterator) ==
    [AdapterCall("get_stderr") EXCEPT !.job_id = job_id, !.iterator = iterator]

get_stdout(job_id, iterator) ==
    [AdapterCall("get_stdout") EXCEPT !.job_id = job_id, !.iterator = iterator]

get_log_of(job_id, log_path, iterator) ==
    [AdapterCall("get_log") EXCEPT
        !.job_id = job_id, !.log_path = log_path, !.iterator = iterator]

kill_job_by_uri(kill_uri) == [AdapterCall("kill_job") EXCEPT !.kill_uri = kill_uri]

kill_job_by_id(job_id) == [AdapterCall("kill_job") EXCEPT !.job_id = job_id]

AdapterError == <<"AdapterError">>

---------------------------------------------------------------------------
(* A call in progress: the handle's fields as the operation has written    *)
(* them so far, the Adapter calls it has issued, and its result.           *)

\* The fields an operation can write.
Fields(h) == [info |-> h.info, status |-> h.status, glog |-> h.glog, serr |-> h.serr]

Handle ==
    [info |-> _info, status |-> _status, glog |-> _cached_genie_log,
     serr |-> _cached_stderr, job_id |-> _job_id,
     calls |-> <<>>, resp |-> Ok(None), raised |-> FALSE, error |-> None,
     failed |-> 0,
     snap |-> [info |-> _info, status |-> _status, glog |-> _cached_genie_log,
               serr |-> _cached_stderr],
     kind |-> "value", ret |-> None, fetched |-> None]

\* An Adapter whose failures are swallowed: the operation goes on with
\* nothing.
CallAndGoOn(h, c, r) ==
    [h EXCEPT !.calls = Append(@, c), !.resp = r,
              !.failed = IF ~r.ok /\ @ = 0 THEN Len(h.calls) + 1 ELSE @,
              !.snap = IF ~r.ok /\ h.failed = 0 THEN Fields(h) ELSE @]

\* The operation calls the Adapter, which answers r or raises: an exception
\* is caught nowhere in the module, so it ends the operation.
Call(h, c, r) ==
    [h EXCEPT !.calls = Append(@, c), !.resp = r, !.raised = ~r.ok,
              !.error = IF r.ok THEN @ ELSE AdapterError,
              !.failed = IF ~r.ok /\ @ = 0 THEN Len(h.calls) + 1 ELSE @,
              !.snap = IF ~r.ok /\ h.failed = 0 THEN Fields(h) ELSE @]

\* The operation raises e itself.
Raise(h, e) == [h EXCEPT !.raised = TRUE, !.error = e]

Return(h, kind, v) == [h EXCEPT !.kind = kind, !.ret = v]

\* return self._adapter.<call>(...): the Adapter's answer r as it is, once
\* the call g has come back.
adapter_answer(g, r) == IF g.raised THEN g ELSE Return(g, "adapter", r.val)

---------------------------------------------------------------------------
(* RunningJob's methods, as steps of a call in progress *)

\* _update_info: fetch info_section (NoSection: everything) and merge it.
\* Every caller passes NoSection or a member of INFO_SECTIONS, so the
\* assertion holds.
\* self._info.update(data), once the call g has come back with data.
_update_info_merge(g, data) ==
    IF g.raised THEN g ELSE [g EXCEPT !.info = DictUpdate(@, data.map)]

_update_info(h, info_section, r) ==
    _update_info_merge(Call(h, get_info_for_rj(h.job_id, info_section), r), r)

\* A guard that reads the cache instead of the dedicated field.
StatusIsStaleByCache(h) ==
    "status" \notin Keys(h.info) \/ Item(h.info, "status") \in RUNNING_STATUSES

\* The guard of the status property: no status yet, or a running one.
StatusIsStale(h) == h.status = None \/ h.status \in RUNNING_STATUSES

\* What the status property stores of the Adapter's answer.
StoredStatus(answer) == Upper(answer)

\* A status property that returns the field as stored.
StatusValueAsStored(s) == IF Truthy(s) THEN s ELSE None

\* What the status property returns of the dedicated field.
StatusValue(s) == IF Truthy(s) THEN Upper(s) ELSE None

\* The status property's assignments (lines 489-490), once the call g has
\* come back with rs.
status_assign(g, rs) ==
    IF g.raised THEN g
    ELSE [g EXCEPT !.status = StoredStatus(rs.val),
                   !.info = DictSet(@, "status", StoredStatus(rs.val)),
                   !.fetched = StoredStatus(rs.val)]

\* The status property's return (line 492).
status_return(h1) ==
    IF h1.raised THEN h1 ELSE Return(h1, "value", StatusValue(h1.status))

\* The status property.  rs answers get_status if it is called.
status(h, rs) ==
    status_return(IF StatusIsStale(h)
                  THEN status_assign(Call(h, get_status(h.job_id), rs), rs)
                  ELSE h)

\* is_done's test of what self.status returned.
is_done_return(h1) ==
    IF h1.raised THEN h1
    ELSE Return(h1, "bool", h1.ret \notin RUNNING_STATUSES)

\* The is_done property.
is_done(h, rs) == is_done_return(status(h, rs))

\* is_successful's test of what self.status returned.
is_successful_return(h1) ==
    IF h1.raised THEN h1 ELSE Return(h1, "bool", h1.ret = SUCCEEDED)

\* The is_successful property.
is_successful(h, rs) == is_successful_return(status(h, rs))

\* A test that never refreshes a cached field.
SeenRunningNever(s) == FALSE

\* get_from_info's test of a cached, update_if_running field: is the job
\* running?  s is what self.status returned.
SeenRunning(s) == Upper(IF Truthy(s) THEN s ELSE INIT) \in RUNNING_STATUSES

\* A test that takes a cached null for a missing field.
FieldMissingOrNull(h, info_key) == DictGet(h.info, info_key) = None

\* get_from_info's test that the field must be fetched.
FieldMissing(h, info_key) == info_key \notin Keys(h.info)

\* The wrapper's refresh of a cached, update_if_running field (lines
\* 64-65), once self.status has returned in h1.
get_from_info_if_running(h1, info_section, ri) ==
    IF h1.raised THEN h1
    ELSE IF SeenRunning(h1.ret) THEN _update_info(h1, info_section, ri)
    ELSE h1

\* The wrapper's return (line 68).
get_from_info_return(h2, info_key) ==
    IF h2.raised THEN h2 ELSE Return(h2, "value", DictGet(h2.info, info_key))

\* The wrapper get_from_info puts around a property.  rs answers get_status
\* and ri get_info_for_rj, if they are called.
get_from_info(h, info_key, info_section, update_if_running, rs, ri) ==
    get_from_info_return(
        IF FieldMissing(h, info_key)
        THEN _update_info(h, info_section, ri)
        ELSE IF update_if_running
        THEN get_from_info_if_running(status(h, rs), info_section, ri)
        ELSE h,
        info_key)

\* update(): the unconditional full refresh.
update_return(h1) == IF h1.raised THEN h1 ELSE Return(h1, "value", None)

update(h, ri) == update_return(_update_info(h, NoSection, ri))

\* The test that a log must be fetched before it can be served from the
\* memoized blob.
NotMemoized(blob) == ~Truthy(blob)

\* genie_log keeps the whole log it fetched, once the call g has come back
\* with rl.
genie_log_memoize(g, rl) == IF g.raised THEN g ELSE [g EXCEPT !.glog = rl.val]

\* genie_log serves the memoized blob m holds, whole or as its lines.
genie_log_cached(m, iterator) ==
    IF m.raised THEN m
    ELSE IF iterator THEN Return(m, "lines", Split(m.glog, "\n"))
    ELSE Return(m, "value", m.glog)

\* genie_log after self.is_done has returned in d (lines 263-266).
genie_log_body(d, iterator, rl) ==
    IF d.raised THEN d
    ELSE IF d.ret
    THEN genie_log_cached(
             IF NotMemoized(d.glog)
             THEN genie_log_memoize(Call(d, get_genie_log(d.job_id, FALSE), rl), rl)
             ELSE d,
             iterator)
    ELSE adapter_answer(Call(d, get_genie_log(d.job_id, iterator), rl), rl)

\* genie_log(iterator).  rs answers get_status and rl get_genie_log, if they
\* are called.
genie_log(h, iterator, rs, rl) == genie_log_body(is_done(h, rs), iterator, rl)

\* stderr keeps the whole log it fetched, once the call g has come back
\* with rl.
stderr_memoize(g, rl) == IF g.raised THEN g ELSE [g EXCEPT !.serr = rl.val]

\* stderr serves the memoized blob m holds, whole or as its lines.
stderr_cached(m, iterator) ==
    IF m.raised THEN m
    ELSE IF iterator THEN Return(m, "lines", Split(m.serr, "\n"))
    ELSE Return(m, "value", m.serr)

\* stderr after self.is_done has returned in d (lines 512-515).
stderr_body(d, iterator, rl) ==
    IF d.raised THEN d
    ELSE IF d.ret
    THEN stderr_cached(
             IF NotMemoized(d.serr)
             THEN stderr_memoize(Call(d, get_stderr(d.job_id, FALSE), rl), rl)
             ELSE d,
             iterator)
    ELSE adapter_answer(Call(d, get_stderr(d.job_id, iterator), rl), rl)

\* stderr(iterator).  rs answers get_status and rl get_stderr, if they
\* are called.
stderr(h, iterator, rs, rl) == stderr_body(is_done(h, rs), iterator, rl)

\* __convert_dttm_to_epoch(info_key): the cached timestamp, the epoch start
\* if the key is missing, as epoch milliseconds; a cached null is 0.
__convert_dttm_to_epoch(h, info_key) ==
    LET dttm == IF info_key \in Keys(h.info) THEN Item(h.info, info_key)
                ELSE EpochStart
        epoch == IF dttm # None /\ HasMillis(dttm) THEN dttm_to_epoch(dttm, TRUE)
                 ELSE IF dttm # None THEN dttm_to_epoch(dttm, FALSE)
                 ELSE 0
    IN  Times1000(epoch)

\* A test for the key alone, whatever the status.
TimeIsMissing(h, info_key, s) == info_key \notin Keys(h.info)

\* finish_time's and update_time's test that the job section must be
\* refreshed.  s is what self.status returned.
TimeIsStale(h, info_key, s) ==
    info_key \notin Keys(h.info) \/ s \in RUNNING_STATUSES \/ s = None

\* return self.__convert_dttm_to_epoch(info_key)
time_return(h2, info_key) ==
    IF h2.raised THEN h2
    ELSE Return(h2, "int", __convert_dttm_to_epoch(h2, info_key))

\* finish_time and update_time after self.status has returned in h1.
time_refresh(h1, info_key, ri) ==
    IF h1.raised THEN h1
    ELSE time_return(IF TimeIsStale(h1, info_key, h1.ret)
                     THEN _update_info(h1, "job", ri)
                     ELSE h1,
                     info_key)

\* finish_time and update_time, on the field info_key.  rs answers get_status
\* and ri get_info_for_rj, if they are called.
TimeOf(h, info_key, rs, ri) == time_refresh(status(h, rs), info_key, ri)

finish_time(h, rs, ri) == TimeOf(h, "finished", rs, ri)

update_time(h, rs, ri) == TimeOf(h, "updated", rs, ri)

\* A test for the key alone, whatever its value.
StartedIsAbsent(h) == "started" \notin Keys(h.info)

\* start_time's test that the job section must be refreshed.
StartedIsMissing(h) ==
    "started" \notin Keys(h.info) \/ DictGet(h.info, "started") = None

\* start_time.  ri answers get_info_for_rj if it is called.
start_time(h, ri) ==
    time_return(IF StartedIsMissing(h) THEN _update_info(h, "job", ri) ELSE h,
                "started")

\* A difference that is never negative.
ClampedDifference(a, b) == IF a < b THEN 0 ELSE a - b

Difference(a, b) == a - b

\* The subtraction, once finish_time has returned in f and start_time in g.
duration_return(f, g) ==
    IF g.raised THEN g ELSE Return(g, "int", Difference(f.ret, g.ret))

\* duration after self.finish_time has returned in f.
duration_body(f, ri) ==
    IF f.raised THEN f ELSE duration_return(f, start_time(f, ri))

\* duration: self.finish_time - self.start_time, the left operand first.
\* rs and rf answer finish_time's calls and ri start_time's.
duration(h, rs, rf, ri) == duration_body(finish_time(h, rs, rf), ri)

AttributeError(attr) == <<"AttributeError", attr>>

\* A test that takes a cached null for a missing field.
InCacheNotNull(h, attr) == DictGet(h.info, attr) # None

\* __getattr__'s test: attr in self.info
InCache(h, attr) == attr \in Keys(h.info)

\* __getattr__(attr): Python calls it for a name that is no attribute of the
\* class.
__getattr__(h, attr) ==
    IF InCache(h, attr) THEN Return(h, "value", DictGet(h.info, attr))
    ELSE Raise(h, AttributeError(attr))

\* A stdout that keeps what it fetched in the blob of stderr.
stdout_memoized(h, iterator, r) ==
    LET g == Call(h, get_stdout(h.job_id, iterator), r)
    IN  IF g.raised THEN g
        ELSE Return([g EXCEPT !.serr = r.val], "adapter", r.val)

\* stdout(iterator): the Adapter's answer r, as it is.
stdout(h, iterator, r) ==
    adapter_answer(Call(h, get_stdout(h.job_id, iterator), r), r)

\* get_log(log_path, iterator): the Adapter's answer r, as it is.
get_log(h, log_path, iterator, r) ==
    adapter_answer(Call(h, get_log_of(h.job_id, log_path, iterator), r), r)

\* A test for the key alone, whatever its value.
HasKillUriKey(h) == "kill_uri" \in Keys(h.info)

\* kill's test for a cached kill URI.
HasKillUri(h) == Truthy(DictGet(h.info, "kill_uri"))

\* kill's call with the URI the kill_uri property returned in u (line 423).
kill_by_uri(u, rk) ==
    IF u.raised THEN u
    ELSE adapter_answer(Call(u, kill_job_by_uri(u.ret), rk), rk)

\* kill().  ri answers get_info_for_rj if the kill_uri property calls it,
\* rk answers kill_job.
kill(h, ri, rk) ==
    IF HasKillUri(h)
    THEN kill_by_uri(get_from_info(h, "kill_uri", "job", FALSE, Failure, ri), rk)
    ELSE adapter_answer(Call(h, kill_job_by_id(h.job_id), rk), rk)

\* A stop set that ignores until_running.
StopSetAlways(until_running) == RUNNING_STATUSES

\* wait's stop set.
StopSet(until_running) ==
    {s \in RUNNING_STATUSES : ~until_running \/ Upper(s) # RUNNING}

\* A loop that gives up after two passes.
KeepsWaitingTwice(answer, stop, n) == Upper(answer) \in stop /\ n < 2

\* wait's loop condition on the Adapter's answer.
KeepsWaiting(answer, stop, n) == Upper(answer) \in stop

\* A progress character on every other pass.
IsEvenPass(n) == n % 2 = 0

\* wait's test for the passes that write a progress character.
IsProgressPass(n) == n % 3 = 0

\* _write_to_stream(msg)
_write_to_stream(out, msg) == IF _sys_stream # "None" THEN Append(out, msg) ELSE out

---------------------------------------------------------------------------
(* What an operation hands back: a value (val: a str or None), the         *)
(* Adapter's answer as it is (val), a bool (flag), a list of lines         *)
(* (lines), an int (num), the handle itself, or an exception (val names    *)
(* it).                                                                    *)

Result(kind, v) ==
    [kind |-> kind,
     val |-> IF kind \in {"value", "adapter", "raise"} THEN v ELSE None,
     flag |-> IF kind = "bool" THEN v ELSE FALSE,
     num |-> IF kind = "int" THEN v ELSE 0,
     lines |-> IF kind = "lines" THEN v ELSE <<>>]

---------------------------------------------------------------------------
(* The state after construction *)

Init ==
    /\ world \in Worlds
    /\ _job_id = JobId
    /\ _info \in Seeds
    /\ _status = IF Truthy(DictGet(_info, "status"))
                 THEN Item(_info, "status") ELSE None
    /\ _cached_genie_log = None
    /\ _cached_stderr = None
    /\ _sys_stream = IF world.progress_stream \in {"stderr", "stdout"}
                     THEN world.progress_stream ELSE "None"
    /\ pc = "idle"
    /\ i = 0
    /\ statuses = {}
    /\ suppress_stream = FALSE
    /\ stream = <<>>
    /\ op = [name |-> "__init__", attr |-> "-", iterator |-> FALSE,
             until_running |-> FALSE]
    /\ calls = <<>>
    /\ resp = Ok(None)
    /\ ret = Result("value", None)
    /\ failed = 0
    /\ at_call = [info |-> _info, status |-> _status, glog |-> None, serr |-> None]
    /\ obtained = None
    /\ was_empty = TRUE
    /\ prior = [same |-> FALSE, fns |-> <<>>, ok |-> FALSE, empty |-> FALSE,
                status |-> None]

\* The operation called and its arguments (attr: the name looked up).
Op(name) ==
    [name |-> name, attr |-> "-", iterator |-> FALSE, until_running |-> FALSE]

\* The operation o, called on an idle handle, ends as h: its writes reach
\* the handle and its result the caller.
Commit(o, h) ==
    /\ pc = "idle"
    /\ _info' = h.info
    /\ _status' = h.status
    /\ _cached_genie_log' = h.glog
    /\ _cached_stderr' = h.serr
    /\ op' = o
    /\ calls' = h.calls
    /\ resp' = h.resp
    /\ ret' = IF h.raised THEN Result("raise", h.error)
              ELSE Result(h.kind, h.ret)
    /\ failed' = h.failed
    /\ at_call' = IF h.failed > 0 THEN h.snap ELSE Fields(h)
    /\ obtained' = IF obtained = None /\ h.fetched # None
                       /\ h.fetched \notin {INIT, RUNNING}
                    THEN h.fetched ELSE obtained
    /\ was_empty' = (_info = EmptyDict)
    /\ prior' = IF op.name = o.name
                THEN [same |-> TRUE,
                      fns |-> [n \in DOMAIN calls |-> calls[n].fn],
                      ok |-> ret.kind # "raise",
                      empty |-> was_empty,
                      status |-> _status]
                ELSE [same |-> FALSE, fns |-> <<>>, ok |-> FALSE,
                      empty |-> FALSE, status |-> None]
    /\ i' = 0
    /\ statuses' = {}
    /\ suppress_stream' = FALSE
    /\ stream' = <<>>
    /\ UNCHANGED <<world, _job_id, _sys_stream, pc>>

\* The operation o runs to its end, once.
Finish(o, end) == \E h \in {end} : Commit(o, h)

---------------------------------------------------------------------------
(* The operations a caller can invoke *)

\* The outcomes of the get_status call the status property may issue: none
\* is drawn for a call its guard rules out.
StatusAnswers(h) == IF StatusIsStale(h) THEN StatusOutcomes ELSE NotCalled

Call_status ==
    \E rs \in StatusAnswers(Handle) : Finish(Op("status"), status(Handle, rs))

Call_is_done ==
    \E rs \in StatusAnswers(Handle) : Finish(Op("is_done"), is_done(Handle, rs))

Call_is_successful ==
    \E rs \in StatusAnswers(Handle) :
        Finish(Op("is_successful"), is_successful(Handle, rs))

\* A property decorated with get_from_info.
Property(name) ==
    LET a == AccessorOf(name)
    IN  /\ a.info_key \in world.keys
        /\ \E rs \in IF a.update_if_running THEN StatusAnswers(Handle)
                     ELSE NotCalled :
           \E ri \in InfoOutcomes :
                Finish(Op(name),
                       get_from_info(Handle, a.info_key, a.info_section,
                                     a.update_if_running, rs, ri))

cluster_name == Property("cluster_name")
command_args == Property("command_args")
description == Property("description")
file_dependencies == Property("file_dependencies")
job_id == Property("job_id")
job_name == Property("job_name")
job_link == Property("job_link")
json_link == Property("json_link")
kill_uri == Property("kill_uri")
output_uri == Property("output_uri")
request_data == Property("request_data")
status_msg == Property("status_msg")
tags == Property("tags")
username == Property("username")

Call_update == \E ri \in InfoOutcomes : Finish(Op("update"), update(Handle, ri))

\* The caller writes the mapping the info property hands out: rj.info[k] = v.
info_setitem ==
    \E k \in world.keys : \E v \in ValuesOf(k) :
        Finish(Op("info"), Return([Handle EXCEPT !.info = DictSet(@, k, v)],
                                  "value", None))

\* The outcomes of the info call finish_time or update_time may issue once
\* get_status has answered rs, and of the one start_time may issue: none is
\* drawn for a call the code does not reach.
AnswersIfStale(h1, info_key) ==
    IF ~h1.raised /\ TimeIsStale(h1, info_key, h1.ret)
    THEN InfoOutcomes ELSE NotCalled

TimeAnswers(h, info_key, rs) == AnswersIfStale(status(h, rs), info_key)

StartAnswers(h) ==
    IF ~h.raised /\ StartedIsMissing(h) THEN InfoOutcomes ELSE NotCalled

\* The names the caller looks up dynamically: field names of the remote side
\* that are no attribute of the class, and one name it never carries.
DynamicNames == (world.keys \cap {"id", "name", "user", "updated"}) \cup {"foo"}

\* A dynamic lookup, rj.<attr>, where the remote side carries such a field.
Call_getattr ==
    /\ DynamicNames # {"foo"}
    /\ \E attr \in DynamicNames :
            Finish([Op("__getattr__") EXCEPT !.attr = attr],
                   __getattr__(Handle, attr))

Call_finish_time ==
    /\ "finished" \in world.keys
    /\ \E rs \in StatusAnswers(Handle) :
       \E ri \in TimeAnswers(Handle, "finished", rs) :
            Finish(Op("finish_time"), finish_time(Handle, rs, ri))

Call_update_time ==
    /\ "updated" \in world.keys
    /\ \E rs \in StatusAnswers(Handle) :
       \E ri \in TimeAnswers(Handle, "updated", rs) :
            Finish(Op("update_time"), update_time(Handle, rs, ri))

Call_start_time ==
    /\ "started" \in world.keys
    /\ \E ri \in StartAnswers(Handle) :
            Finish(Op("start_time"), start_time(Handle, ri))

Call_duration ==
    /\ {"started", "finished"} \subseteq world.keys
    /\ \E rs \in StatusAnswers(Handle) :
       \E rf \in TimeAnswers(Handle, "finished", rs) :
       \E ri \in StartAnswers(finish_time(Handle, rs, rf)) :
            Finish(Op("duration"), duration(Handle, rs, rf, ri))

Call_genie_log ==
    /\ world.logs # {}
    /\ \E iterator \in BOOLEAN :
       \E rs \in StatusAnswers(Handle), rl \in LogOutcomes :
            Finish([Op("genie_log") EXCEPT !.iterator = iterator],
                   genie_log(Handle, iterator, rs, rl))

Call_stderr ==
    /\ world.logs # {}
    /\ \E iterator \in BOOLEAN :
       \E rs \in StatusAnswers(Handle), rl \in LogOutcomes :
            Finish([Op("stderr") EXCEPT !.iterator = iterator],
                   stderr(Handle, iterator, rs, rl))

Call_stdout ==
    /\ world.logs # {}
    /\ \E iterator \in BOOLEAN, r \in LogOutcomes :
            Finish([Op("stdout") EXCEPT !.iterator = iterator],
                   stdout(Handle, iterator, r))

LogPath == <<"a", ".", "l", "o", "g">>

Call_get_log ==
    /\ world.logs # {}
    /\ \E iterator \in BOOLEAN, r \in LogOutcomes :
            Finish([Op("get_log") EXCEPT !.iterator = iterator],
                   get_log(Handle, LogPath, iterator, r))

Call_kill ==
    \E ri \in NotCalled, rk \in KillOutcomes :
        Finish(Op("kill"), kill(Handle, ri, rk))

\* wait(sleep_seconds, suppress_stream, until_running) is called: its locals
\* are set up (lines 634-637).
wait_begin ==
    /\ pc = "idle"
    /\ world.waits
    /\ \E suppress \in BOOLEAN, until_running \in BOOLEAN :
        /\ suppress_stream' = suppress
        /\ statuses' = StopSet(until_running)
        /\ op' = [Op("wait") EXCEPT !.until_running = until_running]
    /\ pc' = "wait"
    /\ i' = 0
    /\ stream' = <<>>
    /\ calls' = <<>>
    /\ resp' = Ok(None)
    /\ ret' = Result("pending", None)
    /\ failed' = 0
    /\ at_call' = Fields(Handle)
    /\ was_empty' = (_info = EmptyDict)
    /\ prior' = [same |-> FALSE, fns |-> <<>>, ok |-> FALSE, empty |-> FALSE,
                 status |-> None]
    /\ UNCHANGED <<world, _job_id, _info, _status, _cached_genie_log,
                   _cached_stderr, _sys_stream, obtained>>

\* One evaluation of wait's loop condition: a live get_status call; then the
\* loop body (a progress dot on every third pass, the sleep, i += 1), or the
\* exit (the newline, return self), or the call's failure.
wait_poll ==
    /\ pc = "wait"
    /\ \E rs \in StatusOutcomes :
        /\ calls' = Append(calls, get_status(_job_id))
        /\ resp' = rs
        /\ failed' = IF rs.ok THEN 0 ELSE Len(calls) + 1
        /\ IF ~rs.ok
           THEN /\ pc' = "idle"
                /\ ret' = Result("raise", AdapterError)
                /\ UNCHANGED <<i, stream>>
           ELSE IF KeepsWaiting(rs.val, statuses, i)
           THEN /\ i < MaxPolls
                /\ stream' = IF IsProgressPass(i) /\ ~suppress_stream
                             THEN _write_to_stream(stream, ".") ELSE stream
                /\ i' = i + 1
                /\ UNCHANGED <<pc, ret>>
           ELSE /\ stream' = IF ~suppress_stream
                             THEN _write_to_stream(stream, "\n") ELSE stream
                /\ pc' = "idle"
                /\ ret' = Result("self", None)
                /\ UNCHANGED i
    /\ UNCHANGED <<world, _job_id, _info, _status, _cached_genie_log,
                   _cached_stderr, _sys_stream, statuses, suppress_stream,
                   op, at_call, obtained, was_empty, prior>>

Next ==
    \/ Call_status
    \/ Call_is_done
    \/ Call_is_successful
    \/ cluster_name
    \/ command_args
    \/ description
    \/ file_dependencies
    \/ job_id
    \/ job_name
    \/ job_link
    \/ json_link
    \/ kill_uri
    \/ output_uri
    \/ request_data
    \/ status_msg
    \/ tags
    \/ username
    \/ Call_update
    \/ info_setitem
    \/ Call_getattr
    \/ Call_finish_time
    \/ Call_update_time
    \/ Call_start_time
    \/ Call_duration
    \/ Call_genie_log
    \/ Call_stderr
    \/ Call_stdout
    \/ Call_get_log
    \/ Call_kill
    \/ wait_begin
    \/ wait_poll

Spec == Init /\ [][Next]_vars

---------------------------------------------------------------------------
(* The claims *)

RunningClass == {INIT, RUNNING}

\* s is a status of the running class, whatever its letter case.
IsRunning(s) == s # None /\ Upper(s) \in RunningClass

\* s is a status outside the running class.
IsTerminal(s) == s # None /\ Upper(s) \notin RunningClass

\* The names of the Adapter functions called, in order.
Fns(cs) == [n \in DOMAIN cs |-> cs[n].fn]

\* C1: once the status accessor has got from the Adapter a status outside
\* {INIT, RUNNING}, no later operation's status access calls get_status (only
\* wait, which asks the Adapter itself, still does), and every later status
\* call returns that status, whatever cache["status"] has become.
C1_TerminalStatusIsKept ==
    [][obtained # None =>
        /\ op'.name # "wait" =>
              \A n \in DOMAIN calls' : calls'[n].fn # "get_status"
        /\ op'.name = "status" =>
              /\ calls' = <<>>
              /\ ret'.kind = "value"
              /\ ret'.val = obtained]_vars

\* A status call that issued no Adapter call and returned the terminal status
\* obtained earlier, while the cache holds a running status.
C1_Witness ==
    /\ op.name = "status"
    /\ obtained # None
    /\ calls = <<>>
    /\ ret.kind = "value"
    /\ ret.val = obtained
    /\ IsRunning(DictGet(_info, "status"))

\* C2: a status call on a handle whose dedicated status is unset or, in any
\* letter case, INIT or RUNNING issues exactly one Adapter call, get_status,
\* and (the call answered) stores the uppercased answer in the dedicated field
\* and in cache["status"] and returns it; a returned status is uppercase.
C2_StaleStatusIsFetched ==
    [][op'.name = "status" =>
        /\ (_status = None \/ IsRunning(_status)) =>
              /\ calls' = <<get_status(_job_id)>>
              /\ resp'.ok =>
                    /\ _status' = Upper(resp'.val)
                    /\ DictGet(_info', "status") = Upper(resp'.val)
                    /\ ret'.kind = "value"
                    /\ ret'.val = Upper(resp'.val)
        /\ (ret'.kind = "value" /\ ret'.val # None) =>
              ret'.val = Upper(ret'.val)]_vars

\* C3 as claimed: the first access of a decorated property on an empty cache
\* issues exactly one Adapter call, an info call, and the access right after
\* it issues none (the Adapter answering every call it gets).
C3_SecondAccessIsFree ==
    \A a \in Accessors :
        (/\ op.name = a.name
         /\ prior.same
         /\ prior.empty
         /\ prior.ok
         /\ ret.kind # "raise") =>
            /\ prior.fns = <<"get_info_for_rj">>
            /\ calls = <<>>

\* C3 as amended: an access of a decorated property whose key is not in the
\* cache issues exactly one Adapter call, the info call for the property's
\* section; an access whose key is in the cache, with any value, issues none,
\* for status_msg when the dedicated status is terminal.
C3_AccessFetchesOnlyMissingKey ==
    [][\A a \in Accessors : op'.name = a.name =>
        /\ a.info_key \notin Keys(_info) =>
              calls' = <<get_info_for_rj(_job_id, a.info_section)>>
        /\ (/\ a.info_key \in Keys(_info)
            /\ a.update_if_running => IsTerminal(_status)) =>
              calls' = <<>>]_vars

\* A second access right after the first, on a cache the first found empty:
\* the first issued the info call, the Adapter's mapping held the key with a
\* null value, and the second issued no call.
C3_Witness ==
    /\ op.name = "description"
    /\ prior.same
    /\ prior.empty
    /\ prior.ok
    /\ prior.fns = <<"get_info_for_rj">>
    /\ calls = <<>>
    /\ _info = {<<"description", None>>}
    /\ ret.kind = "value"
    /\ ret.val = None

\* C4 as claimed: a status_msg access that finds the job's status in the
\* running class ends with a job-section info refresh, also when status_msg
\* is cached; a status_msg access right after another, on a handle whose
\* status is terminal, issues no Adapter call.
C4_StatusMsgFollowsStatus ==
    [][op'.name = "status_msg" =>
        /\ (ret'.kind # "raise" /\ IsRunning(_status')) =>
              /\ calls' # <<>>
              /\ calls'[Len(calls')] = get_info_for_rj(_job_id, "job")
        /\ (op.name = "status_msg" /\ ret.kind # "raise" /\ IsTerminal(_status)) =>
              calls' = <<>>]_vars

\* C4 as amended: a status_msg access that finds the job's status in the
\* running class ends with a job-section info refresh, also when status_msg
\* is cached; an access on a handle whose status is terminal and whose cache
\* holds status_msg issues no Adapter call.
C4_StatusMsgFollowsStatusOnceCached ==
    [][op'.name = "status_msg" =>
        /\ (ret'.kind # "raise" /\ IsRunning(_status')) =>
              /\ calls' # <<>>
              /\ calls'[Len(calls')] = get_info_for_rj(_job_id, "job")
        /\ (IsTerminal(_status) /\ "status_msg" \in Keys(_info)) =>
              calls' = <<>>]_vars

\* A status_msg access that refreshed a cached status_msg because the status
\* call it made found the job running, right after another access.
C4_Witness ==
    /\ op.name = "status_msg"
    /\ prior.same
    /\ prior.ok
    /\ IsRunning(_status)
    /\ calls = <<get_status(_job_id), get_info_for_rj(_job_id, "job")>>
    /\ ret.kind = "value"
    /\ ret.val = V2

\* The number of calls of the Adapter function fn among fns.
Count(fns, fn) == Cardinality({n \in DOMAIN fns : fns[n] = fn})

LogFn(name) == IF name = "genie_log" THEN "get_genie_log" ELSE "get_stderr"

Blob(name) == IF name = "genie_log" THEN _cached_genie_log ELSE _cached_stderr

\* C5: of two log fetches in a row (genie_log, or stderr; either flavour)
\* that the Adapter answers: on a terminal job, when the first had to call
\* the Adapter for the log, it called once, the second does not call, and the
\* second returns the memoized content (split into lines for the line
\* flavour); on a job both found running, each calls the Adapter for the log
\* once and nothing is memoized.
C5_LogIsMemoizedWhenDone ==
    (/\ op.name \in {"genie_log", "stderr"}
     /\ prior.same
     /\ prior.ok
     /\ ret.kind # "raise") =>
        /\ (IsTerminal(prior.status) /\ Count(prior.fns, LogFn(op.name)) > 0) =>
              /\ Count(prior.fns, LogFn(op.name)) = 1
              /\ Count(Fns(calls), LogFn(op.name)) = 0
              /\ ret.kind = "value" => ret.val = Blob(op.name)
              /\ ret.kind = "lines" => ret.lines = Split(Blob(op.name), "\n")
        /\ (IsRunning(prior.status) /\ IsRunning(_status)) =>
              /\ Count(prior.fns, LogFn(op.name)) = 1
              /\ Count(Fns(calls), LogFn(op.name)) = 1
              /\ Blob(op.name) = None
              /\ ret.kind = "adapter"

\* C6: a memoized log is set only while the dedicated status is terminal,
\* and once set no operation changes it.
C6_MemoizedLogIsFinal ==
    [][/\ _cached_genie_log' # None => IsTerminal(_status')
       /\ _cached_stderr' # None => IsTerminal(_status')
       /\ _cached_genie_log # None => _cached_genie_log' = _cached_genie_log
       /\ _cached_stderr # None => _cached_stderr' = _cached_stderr]_vars

\* What wait's stop set is claimed to be, on uppercased statuses.
ClaimedStopSet(until_running) == IF until_running THEN {INIT} ELSE {INIT, RUNNING}

\* C7: wait's stop set is {INIT} with until_running and {INIT, RUNNING}
\* without; a poll the Adapter answers keeps wait polling exactly when the
\* uppercased answer is in the stop set, and otherwise wait returns.
C7_WaitStopsOutsideStopSet ==
    [][/\ (pc = "idle" /\ pc' = "wait") =>
              {Upper(s) : s \in statuses'} = ClaimedStopSet(op'.until_running)
       /\ (pc = "wait" /\ resp'.ok) =>
              IF Upper(resp'.val) \in ClaimedStopSet(op.until_running)
              THEN pc' = "wait"
              ELSE pc' = "idle" /\ ret'.kind = "self"]_vars

\* wait(until_running=True) has polled through INIT and returned on the
\* Adapter's mixed-case "Running".
C7_Witness ==
    /\ pc = "idle"
    /\ op.name = "wait"
    /\ op.until_running
    /\ ret.kind = "self"
    /\ Len(calls) >= 2
    /\ resp.ok
    /\ resp.val = <<"R","u","n","n","i","n","g">>

C9_KillUsesCachedUri ==
    [][op'.name = "kill" =>
        /\ calls' = IF Truthy(DictGet(_info, "kill_uri"))
                    THEN <<kill_job_by_uri(Item(_info, "kill_uri"))>>
                    ELSE <<kill_job_by_id(_job_id)>>
        /\ _info' = _info
        /\ resp'.ok => ret'.kind = "adapter" /\ ret'.val = resp'.val
        /\ ~resp'.ok => ret'.kind = "raise"]_vars

\* kill has called kill_job with the cached URI and returned the answer.
C9_Witness ==
    /\ op.name = "kill"
    /\ DictGet(_info, "kill_uri") = V2
    /\ calls = <<kill_job_by_uri(V2)>>
    /\ ret.kind = "adapter"
    /\ ret.val = Response404

\* C10: is_done returns whether the status the handle then holds is, in any
\* letter case, neither INIT nor RUNNING, and is_successful whether it is
\* SUCCEEDED once uppercased, which is what the status accessor yields; and
\* on one state and one Adapter answer, is_successful true implies is_done
\* true.
C10_DoneAndSuccessfulFollowStatus ==
    /\ [][/\ (op'.name = "is_done" /\ ret'.kind = "bool") =>
                ret'.flag = ~IsRunning(_status')
          /\ (op'.name = "is_successful" /\ ret'.kind = "bool") =>
                ret'.flag = (Upper(_status') = SUCCEEDED)]_vars
    /\ [](pc = "idle" =>
            \A rs \in StatusAnswers(Handle) :
                LET y == status(Handle, rs)
                    d == is_done(Handle, rs)
                    e == is_successful(Handle, rs)
                IN  ~y.raised =>
                        /\ d.ret = (y.ret = None \/ ~IsRunning(y.ret))
                        /\ e.ret = (y.ret = SUCCEEDED)
                        /\ e.ret => d.ret)

\* is_done has returned False on a handle seeded with the mixed-case status
\* "Running".
C10_Witness ==
    /\ op.name = "is_done"
    /\ ret.kind = "bool"
    /\ ret.flag = FALSE
    /\ _status = <<"R","u","n","n","i","n","g">>

\* The dedicated status field is unset or equal to cache["status"].
StatusInSync == _status # None => DictGet(_info, "status") = _status

\* C11: whenever the dedicated status field is set, cache["status"] holds the
\* same value: no operation of the handle (a caller's own write to the
\* mapping apart) takes a handle on which the two agree to one on which they
\* differ; they agree after construction.
C11_StatusFieldFollowsCache ==
    [][(op'.name # "info" /\ StatusInSync) => StatusInSync']_vars

\* C12: the cache only grows; the mapping a refresh got is in the cache when
\* the operation that ended with it returns; and after an operation whose
\* one Adapter call was an info call, every key of the returned mapping
\* holds the returned value and every other key its previous value.
C12_MergeIsAdditiveRemoteWins ==
    [][/\ Keys(_info) \subseteq Keys(_info')
       /\ (/\ calls' # <<>>
           /\ calls'[Len(calls')].fn = "get_info_for_rj"
           /\ resp'.ok) =>
              resp'.map \subseteq _info'
       /\ (Fns(calls') = <<"get_info_for_rj">> /\ resp'.ok) =>
              /\ \A k \in Keys(resp'.map) : Item(_info', k) = Item(resp'.map, k)
              /\ \A k \in Keys(_info) \ Keys(resp'.map) :
                    Item(_info', k) = Item(_info, k)
              /\ Keys(_info') = Keys(_info) \cup Keys(resp'.map)]_vars

\* update() has merged a mapping that carries status_msg alone into a cache
\* that held status and another status_msg: status is kept, status_msg is
\* the remote side's.
C12_Witness ==
    /\ op.name = "update"
    /\ resp.ok
    /\ resp.map = {<<"status_msg", V2>>}
    /\ prior.same
    /\ prior.ok
    /\ _info = {<<"status", SUCCEEDED>>, <<"status_msg", V2>>}
    /\ _status = SUCCEEDED

\* finish_time found the job incomplete: its status in the running class and,
\* after the refresh, no finish timestamp in the cache.
Incomplete(f) == IsRunning(f.status) /\ DictGet(f.info, "finished") = None

\* C13 as claimed: on every handle and whatever the Adapter answers, duration
\* is finish_time minus start_time, the two read in that order, and it is
\* negative when finish_time found the job incomplete, whatever started is.
C13_DurationIsNegativeWhileIncomplete ==
    (pc = "idle" /\ {"started", "finished"} \subseteq world.keys) =>
        \A rs \in StatusAnswers(Handle) :
        \A rf \in TimeAnswers(Handle, "finished", rs) :
        \A ri \in StartAnswers(finish_time(Handle, rs, rf)) :
            LET f == finish_time(Handle, rs, rf)
                g == start_time(f, ri)
                d == duration(Handle, rs, rf, ri)
            IN  ~d.raised =>
                    /\ d.ret = f.ret - g.ret
                    /\ Incomplete(f) => d.ret < 0

\* C13 as amended: duration is finish_time minus start_time, the two read in
\* that order; when finish_time found the job incomplete it is minus the
\* start time: negative when the cache then holds a started timestamp, and
\* zero when started is missing or null.
C13_DurationIsMinusStartWhileIncomplete ==
    (pc = "idle" /\ {"started", "finished"} \subseteq world.keys) =>
        \A rs \in StatusAnswers(Handle) :
        \A rf \in TimeAnswers(Handle, "finished", rs) :
        \A ri \in StartAnswers(finish_time(Handle, rs, rf)) :
            LET f == finish_time(Handle, rs, rf)
                g == start_time(f, ri)
                d == duration(Handle, rs, rf, ri)
            IN  ~d.raised =>
                    /\ d.ret = f.ret - g.ret
                    /\ Incomplete(f) =>
                          /\ f.ret = 0
                          /\ d.ret = 0 - g.ret
                          /\ d.ret <= 0
                          /\ d.ret < 0 <=> DictGet(g.info, "started") # None

\* duration has returned -1000 on a running job whose cache holds the start
\* timestamp of second 1 and a null finish timestamp.
C13_Witness ==
    /\ op.name = "duration"
    /\ ret.kind = "int"
    /\ ret.num = 0 - 1000
    /\ IsRunning(_status)
    /\ _info = {<<"status", RUNNING>>, <<"started", Stamp1>>, <<"finished", None>>}

\* C14: the handle's job id stays the one given at construction, every
\* Adapter call that passes a job id passes that one, and the job_id accessor
\* returns it, after any operations and whatever the Adapter answers.
C14_JobIdNeverChanges ==
    [][/\ _job_id' = JobId
       /\ \A n \in DOMAIN calls' : calls'[n].job_id \in {JobId, None}
       /\ (op'.name = "job_id" /\ ret'.kind = "value") => ret'.val = JobId]_vars

\* The handle's fields as they are.
FieldsNow ==
    [info |-> _info, status |-> _status, glog |-> _cached_genie_log,
     serr |-> _cached_stderr]

\* C15: an operation in which an Adapter call fails ends with that failure,
\* the failing call its last, and the cache, the dedicated status and the
\* memoized logs are as they were when that call was issued: as before the
\* operation, when the failing call was its first (in wait: any poll).
C15_FailurePropagatesWithoutRetry ==
    [][/\ failed' > 0 =>
              /\ pc' = "idle"
              /\ ret'.kind = "raise"
              /\ ret'.val = AdapterError
              /\ failed' = Len(calls')
              /\ ~resp'.ok
              /\ FieldsNow' = at_call'
              /\ (failed' = 1 \/ pc = "wait") => FieldsNow' = FieldsNow
       /\ (ret'.kind = "raise" /\ ret'.val = AdapterError) => failed' > 0
       /\ (calls' # <<>> /\ ~resp'.ok) => failed' > 0]_vars

\* finish_time on a fresh handle has failed in its second Adapter call, the
\* job-section refresh: the status its first call got stays stored.
C15_Witness ==
    /\ op.name = "finish_time"
    /\ ret.kind = "raise"
    /\ failed = 2
    /\ Fns(calls) = <<"get_status", "get_info_for_rj">>
    /\ _status = RUNNING
    /\ _info = {<<"status", RUNNING>>}
    /\ at_call = FieldsNow

\* C16: a dynamic lookup of a name that is a key of the cache returns the
\* cached value, a null included; a lookup of a name that is not in the
\* cache raises an attribute error that names it; either way no Adapter call
\* is issued and the handle is as before.
C16_DynamicLookupReadsCache ==
    [][op'.name = "__getattr__" =>
        /\ calls' = <<>>
        /\ FieldsNow' = FieldsNow
        /\ op'.attr \in Keys(_info) =>
              /\ ret'.kind = "value"
              /\ ret'.val = Item(_info, op'.attr)
        /\ op'.attr \notin Keys(_info) =>
              /\ ret'.kind = "raise"
              /\ ret'.val = <<"AttributeError", op'.attr>>]_vars

\* rj.name has returned the cached null of the key name.
C16_Witness ==
    /\ op.name = "__getattr__"
    /\ op.attr = "name"
    /\ _info = {<<"name", None>>}
    /\ ret.kind = "value"
    /\ ret.val = None
    /\ calls = <<>>

\* The time field an accessor reads.
TimeKey(name) ==
    IF name = "finish_time" THEN "finished"
    ELSE IF name = "update_time" THEN "updated" ELSE "started"

\* What finish_time and update_time do, which C17 claims and C17 amended
\* share: an access the Adapter answers ends with one job-section refresh
\* when the field is not in the cache or the status the access yields is in
\* the running class or unknown, and issues no info call when the field is
\* cached and that status is terminal.
FinishAndUpdatePolicy ==
    (op'.name \in {"finish_time", "update_time"} /\ ret'.kind # "raise") =>
        IF \/ TimeKey(op'.name) \notin Keys(_info)
           \/ ~Truthy(_status')
           \/ IsRunning(_status')
        THEN /\ Count(Fns(calls'), "get_info_for_rj") = 1
             /\ calls'[Len(calls')] = get_info_for_rj(_job_id, "job")
        ELSE Count(Fns(calls'), "get_info_for_rj") = 0

\* C17 as claimed: the policy of finish_time and update_time; and start_time
\* issues one Adapter call, a job-section refresh, when started is not in the
\* cache, and none otherwise: never a status call.
C17_StartRefreshesWhenAbsent ==
    [][/\ FinishAndUpdatePolicy
       /\ op'.name = "start_time" =>
              calls' = IF "started" \notin Keys(_info)
                       THEN <<get_info_for_rj(_job_id, "job")>> ELSE <<>>]_vars

\* C17 as amended: the policy of finish_time and update_time; and start_time
\* issues one Adapter call, a job-section refresh, when started is not in the
\* cache or is cached as null, and none otherwise: never a status call.
C17_StartRefreshesWhenAbsentOrNull ==
    [][/\ FinishAndUpdatePolicy
       /\ op'.name = "start_time" =>
              calls' = IF DictGet(_info, "started") = None
                       THEN <<get_info_for_rj(_job_id, "job")>> ELSE <<>>]_vars

\* update_time on a handle seeded with the mixed-case status Running, which
\* the status accessor yields as RUNNING without a call, has refreshed the
\* job section and returned the timestamp with the fraction as milliseconds.
C17_Witness ==
    /\ op.name = "update_time"
    /\ _status = <<"R","u","n","n","i","n","g">>
    /\ Fns(calls) = <<"get_info_for_rj">>
    /\ prior.same
    /\ prior.ok
    /\ ret.kind = "int"
    /\ ret.num = 2500

\* k progress characters.
Dots(k) == [n \in 1..k |-> "."]

\* C18: while wait polls and after it has returned, having slept i times,
\* the stream has received one progress character for each of the passes 0,
\* 3, 6, ... below i (ceil(i/3) of them) and, once wait has returned, one
\* newline after them; nothing at all when suppress_stream is set or no
\* stream is configured.
C18_ProgressOutput ==
    op.name = "wait" =>
        stream = IF suppress_stream \/ _sys_stream = "None" THEN <<>>
                 ELSE Dots((i + 2) \div 3)
                      \o (IF pc = "idle" /\ ret.kind = "self" THEN <<"\n">>
                          ELSE <<>>)

\* wait has returned after MaxPolls sleeps with the output on: a progress
\* character for each third pass, then the newline.
C18_Witness ==
    /\ op.name = "wait"
    /\ pc = "idle"
    /\ ret.kind = "self"
    /\ ~suppress_stream
    /\ _sys_stream = "stderr"
    /\ i = MaxPolls
    /\ stream = Dots((MaxPolls + 2) \div 3) \o <<"\n">>

\* C19: wait (its entry and every poll), stdout, get_log and kill leave the
\* cache, the dedicated status and both memoized logs as they were, whatever
\* the Adapter answers.
C19_PassThroughFrame ==
    [][(\/ op'.name \in {"stdout", "get_log", "kill"}
        \/ pc = "wait"
        \/ pc' = "wait") => FieldsNow' = FieldsNow]_vars

\* stdout on a terminal job has returned the Adapter's two lines and no log
\* is memoized.
C19_Witness ==
    /\ op.name = "stdout"
    /\ ret.kind = "adapter"
    /\ ret.val = TextAB
    /\ calls = <<get_stdout(_job_id, op.iterator)>>
    /\ IsTerminal(_status)
    /\ _cached_stderr = None
    /\ _cached_genie_log = None

\* C20: wait(until_running=False) has returned, on whatever handle; the
\* access right after it is is_done or status, and the Adapter, if that
\* access asks it, reports a terminal status again (the remote job does not
\* go back to running): is_done yields true, and status yields a terminal
\* status, the one the Adapter reports to that access if it asks.
C20_WaitAgreesWithAccessors ==
    [][(/\ op.name = "wait"
        /\ pc = "idle"
        /\ ret.kind = "self"
        /\ ~op.until_running
        /\ calls' # <<>> => (resp'.ok /\ IsTerminal(resp'.val))) =>
            /\ op'.name = "is_done" => (ret'.kind = "bool" /\ ret'.flag)
            /\ op'.name = "status" =>
                  /\ ret'.kind = "value"
                  /\ IsTerminal(ret'.val)
                  /\ calls' # <<>> => ret'.val = Upper(resp'.val)]_vars

\* The runs in which wait's loop is scheduled: the thread that called wait
\* goes on to the next poll when its sleep ends.
LiveSpec == Spec /\ WF_vars(wait_poll)

====
